---- MODULE Spec2Model ----
(***************************************************************************)
(* A model of the Google Maps scraper: the process-wide worker pool, the   *)
(* scrapeGoogleMaps invocations of a process (crawl loop,                  *)
(* processListingsBatch, the e-mail dispatch to the pool), the abort       *)
(* signal of the caller, the message handler of the worker threads, the    *)
(* SIGTERM listener, the fields of the business built for a listing, and   *)
(* the /scrape and /stop-scrape handlers of the HTTP server.               *)
(*                                                                         *)
(* JavaScript runs every callback to completion: an action of this model   *)
(* is one such run, from the event that resumes the code (an awaited       *)
(* promise settling, a message, a timer, the abort event) up to the next   *)
(* await that waits for the outside world.                                 *)
(***************************************************************************)
EXTENDS Integers, Sequences, FiniteSets, TLC

VARIABLES
    workers,                  \* part_000:9   the pool, a sequence of worker ids
    currentWorkerIndex,       \* part_000:10  the rotation cursor
    extractEmail,             \* part_000:120 parameter
    total,                    \* part_000:120 parameter
    avail,                    \* environment: handles the feed can reveal
    page,                     \* environment: handles a scroll reveals when it reveals
                              \*   any (Unlimited: any number)
    stalls,                   \* environment: scrolls that may still reveal nothing new
                              \*   although more exists (Unlimited: any number)
    faults,                   \* environment: faults it may still raise
    sites,                    \* environment: per handle, what its website gives
    pc,                       \* where the invocation is suspended
    browser,                  \* part_000:121 TRUE once chromium.launch resolved
    aborted,                  \* signal.aborted of the caller's AbortController
    sinkAtAbort,              \* the sink as it was when the signal fired
    abortListener,            \* part_000:144 the 'abort' listener is registered
    isStopped,                \* part_000:123
    scrapedData,              \* part_000:122
    sink,                     \* the records onDataScraped was called with, in order
    returned,                 \* the array the invocation resolved with
    exitReason,               \* which exit the invocation took
    scrollAttempts,           \* part_000:154
    lastResultsCount,         \* part_000:155
    consecutiveNoNewResults,  \* part_000:156
    listings,                 \* part_000:284 number of handles enumerated
    offset,                   \* part_000:163 i, the start of the chunk in newListings
    results,                  \* part_000:160
    inflight,                 \* handles whose batch.map callback has not returned
    batchResults,             \* part_000:267 outcome per handle of the chunk
    dispatched,               \* per handle, how often it was given to extraction
    extracted,                \* handles whose callback returned a record
    requests,                 \* the e-mail dispatches made, in order; the index of a
                              \*   dispatch stands for its requestId (part_000:223)
    timers,                   \* requestIds whose setTimeout is pending (part_000:226)
    handlers,                 \* <<worker, requestId>>: the messageHandler of the
                              \*   dispatch is registered on the worker (part_000:241)
    resolutions,              \* per requestId, the resolve() calls made, in order
    inbox,                    \* per worker, the requestIds posted to it and not
                              \*   answered (part_000:244)
    outbox,                   \* the replies posted by workers, not yet delivered
    ignored,                  \* <<requestId of a handler, requestId of a message>>:
                              \*   the handler was called with the message and
                              \*   did not take it
    spawned,                  \* part_000:15 worker threads constructed so far
    invocations,              \* calls of scrapeGoogleMaps so far
    terminated,               \* workers terminate() was called on
    browserOpen,              \* the chromium process of part_000:132 is running
    detailPages,              \* handles whose detailsPage (part_000:169) is open
    handling,                 \* worker.js:117 requestIds whose handler has begun
                              \*   and not finished
    workerBrowsers,           \* worker.js:8 requestIds whose handler launched a
                              \*   browser that is still running
    answered,                 \* requestIds the worker posted a reply to
    finished,                 \* requestIds whose handler ran to its end
    phoneText,                \* part_000:181 the text of the phone element
    addressText,              \* part_000:202 the text of the address element
    business,                 \* part_000:197 the record built from them
    overtaken,                \* in the running processListingsBatch call, a
                              \*   callback returned while the callback of an
                              \*   earlier handle of its chunk had not
    currentScraping,          \* part_003:8
    controllers,              \* how many AbortControllers part_003:30 made
    running,                  \* the controllers of the /scrape requests whose
                              \*   scrapeGoogleMaps call has not settled
    abortedControllers,       \* the controllers abort() was called on
    stops                     \* per /stop-scrape request, in order: what it
                              \*   answered, what it aborted and what was running

crawlVars == <<pc, browser, isStopped, abortListener, scrapedData, sink, returned,
               exitReason, scrollAttempts, lastResultsCount,
               consecutiveNoNewResults, listings, offset, results, inflight,
               batchResults, dispatched, extracted>>
inputVars == <<extractEmail, total, avail, page, sites>>
poolVars == <<workers, currentWorkerIndex>>
mailVars == <<requests, timers, handlers, resolutions, inbox, outbox, ignored>>
signalVars == <<aborted, sinkAtAbort>>
threadVars == <<handling, workerBrowsers, answered, finished>>
recordVars == <<phoneText, addressText, business>>
lifeVars == <<spawned, invocations>>
serverVars == <<currentScraping, controllers, running, abortedControllers, stops>>
vars == <<crawlVars, inputVars, poolVars, mailVars, signalVars, stalls, faults,
          threadVars, recordVars, lifeVars, terminated, browserOpen, detailPages,
          overtaken, serverVars>>

----------------------------------------------------------------------------
(* Bounds of the model *)

\* the largest feed
MaxFeed == 3
\* the largest target count
MaxTotal == 2
\* the largest number of faults the environment raises in the paged runs
MaxFaults == 1

\* the largest number of calls of scrapeGoogleMaps in one process
MaxInvocations == 2

\* the longest phone text
MaxPhoneLen == 3
\* the largest number of comma-separated segments of an address
MaxSegments == 3

\* the largest number of /scrape and of /stop-scrape requests
MaxScrapes == 3
MaxStops == 3

\* a budget that never runs out
Unlimited == 0 - 1

NUM_WORKERS == 4

\* the absent-marker
NA == "N/A"

\* the value a failed extraction returns (part_000:263), as a record
Null == [pos |-> 0, email |-> "null"]

Min(a, b) == IF a < b THEN a ELSE b

Range(f) == {f[x] : x \in DOMAIN f}

Spend(budget) == IF budget = Unlimited THEN Unlimited ELSE budget - 1

----------------------------------------------------------------------------
(* The worker pool *)

\* part_000:13-18; made is the number of threads constructed before, and the
\* threads are numbered as they are constructed
initializeWorkerPool(ws, made) ==
    LET push[k \in 0..NUM_WORKERS] ==
            IF k = 0 THEN ws ELSE Append(push[k - 1], made + k)
    IN push[NUM_WORKERS]

----------------------------------------------------------------------------
(* scrapeGoogleMaps *)

\* part_000:124
MAX_CONCURRENT == IF extractEmail THEN 5 ELSE 10

\* part_000:273, the while condition
LoopCondition(stopped, data, attempts) ==
    ~stopped /\ Len(data) < total /\ attempts < 100

\* Batch slicing the whole enumeration instead of newListings
BatchOfAllListings(last, n, i) ==
    LET batchSize == Min(MAX_CONCURRENT, n - last)
    IN {p \in 1..n : i < p /\ p <= i + batchSize}

\* Batch without the upper end of the slice
BatchToTheEnd(last, n, i) == {p \in 1..n : last + i < p}

\* part_000:166, listings.slice(i, i + batchSize) of newListings, as feed positions
Batch(last, n, i) ==
    LET batchSize == Min(MAX_CONCURRENT, n - last)
    IN {p \in 1..n : last + i < p /\ p <= last + i + batchSize}

\* Filtered letting the nulls through
FilteredKeepingNulls(br, lo, hi) ==
    [k \in 1..(hi - lo + 1) |->
        IF lo + k - 1 \in DOMAIN br THEN br[lo + k - 1] ELSE Null]

\* part_000:268, batchResults.filter(r => r !== null), in the order of the handles
RECURSIVE Filtered(_, _, _)
Filtered(br, lo, hi) ==
    IF lo > hi THEN <<>>
    ELSE IF lo \in DOMAIN br /\ br[lo] # Null
         THEN <<br[lo]>> \o Filtered(br, lo + 1, hi)
         ELSE Filtered(br, lo + 1, hi)

\* Emitted stopping at the target count
EmittedUpToTotal(res) == SubSeq(res, 1, Min(Len(res), total - Len(scrapedData)))

\* part_000:291-295, the emit loop: what it appends to scrapedData and to the sink
Emitted(res) == res

\* Return resolving with a fresh array
ReturnEmpty(data, why, hasBrowser) ==
    /\ returned' = <<>>
    /\ exitReason' = why
    /\ terminated' = terminated \cup Range(workers)
    /\ pc' = IF hasBrowser THEN "finally" ELSE "done"

\* Return leaving the workers of the pool running
ReturnKeepingWorkers(data, why, hasBrowser) ==
    /\ returned' = data
    /\ exitReason' = why
    /\ terminated' = terminated
    /\ pc' = IF hasBrowser THEN "finally" ELSE "done"

\* part_000:315 and 320-328: return scrapedData, then the finally block, which
\* terminates the workers of the pool; the invocation settles after
\* browser.close(), or at once when no browser was launched
Return(data, why, hasBrowser) ==
    /\ returned' = data
    /\ exitReason' = why
    /\ terminated' = terminated \cup Range(workers)
    /\ pc' = IF hasBrowser THEN "finally" ELSE "done"

\* part_000:273: the while condition at the top of an iteration, and the scroll
\* of part_000:275 it starts when the condition holds
LoopTop(stopped, data, attempts) ==
    IF LoopCondition(stopped, data, attempts)
    THEN pc' = "scroll" /\ UNCHANGED <<returned, exitReason, terminated>>
    ELSE Return(data, "loop", TRUE)

\* part_000:120-132: the call, up to the await of chromium.launch
Invoke ==
    /\ pc = "idle"
    /\ workers' = IF Len(workers) = 0
                  THEN initializeWorkerPool(workers, spawned) ELSE workers
    /\ spawned' = IF Len(workers) = 0 THEN spawned + NUM_WORKERS ELSE spawned
    /\ invocations' = invocations + 1
    /\ pc' = "launch"
    /\ inbox' = [w \in DOMAIN inbox \cup Range(workers') |->
                    IF w \in DOMAIN inbox THEN inbox[w] ELSE {}]
    /\ UNCHANGED <<currentWorkerIndex, requests, timers, handlers, resolutions,
                   outbox, ignored, inputVars, signalVars, stalls, faults, browser,
                   isStopped, abortListener, scrapedData, sink, returned,
                   exitReason, scrollAttempts, lastResultsCount,
                   consecutiveNoNewResults, listings, offset, results, inflight,
                   batchResults, dispatched, extracted>>
    /\ UNCHANGED <<threadVars, recordVars, terminated, browserOpen, detailPages>>
    /\ UNCHANGED <<overtaken, serverVars>>

\* part_000:120-132: a later call in the same process, with a new controller,
\* the same query and a new sink, once the call before it settled
InvokeAgain ==
    /\ pc = "done"
    /\ invocations < MaxInvocations
    /\ workers' = IF Len(workers) = 0
                  THEN initializeWorkerPool(workers, spawned) ELSE workers
    /\ spawned' = IF Len(workers) = 0 THEN spawned + NUM_WORKERS ELSE spawned
    /\ invocations' = invocations + 1
    /\ inbox' = [w \in DOMAIN inbox \cup Range(workers') |->
                    IF w \in DOMAIN inbox THEN inbox[w] ELSE {}]
    /\ pc' = "launch"
    /\ browser' = FALSE
    /\ isStopped' = FALSE
    /\ abortListener' = FALSE
    /\ aborted' = FALSE
    /\ sinkAtAbort' = <<>>
    /\ scrapedData' = <<>>
    /\ sink' = <<>>
    /\ returned' = <<>>
    /\ exitReason' = "none"
    /\ scrollAttempts' = 0
    /\ lastResultsCount' = 0
    /\ consecutiveNoNewResults' = 0
    /\ listings' = 0
    /\ offset' = 0
    /\ results' = <<>>
    /\ inflight' = {}
    /\ batchResults' = <<>>
    /\ dispatched' = [p \in DOMAIN dispatched |-> 0]
    /\ extracted' = {}
    /\ overtaken' = FALSE
    /\ UNCHANGED <<currentWorkerIndex, requests, timers, handlers, resolutions,
                   outbox, ignored, inputVars, stalls, faults, threadVars,
                   recordVars, terminated, browserOpen, detailPages>>
    /\ UNCHANGED serverVars

\* controller.abort() of the caller: the 'abort' event reaches the listener of
\* part_000:144-147 only if it is registered by then
Abort ==
    /\ pc \notin {"idle", "done", "crashed"}
    /\ ~aborted
    /\ aborted' = TRUE
    /\ sinkAtAbort' = sink
    /\ isStopped' = IF abortListener THEN TRUE ELSE isStopped
    /\ UNCHANGED <<poolVars, mailVars, inputVars, stalls, faults, pc, browser,
                   abortListener, scrapedData, sink, returned, exitReason, scrollAttempts,
                   lastResultsCount, consecutiveNoNewResults, listings, offset,
                   results, inflight, batchResults, dispatched, extracted>>
    /\ UNCHANGED <<threadVars, recordVars, lifeVars, terminated, browserOpen, detailPages>>
    /\ UNCHANGED <<overtaken, serverVars>>

\* part_000:132-149: launch, newContext and newPage resolved; the listener is
\* registered and the navigation to the search page starts
LaunchDone ==
    /\ pc = "launch"
    /\ browser' = TRUE
    /\ browserOpen' = TRUE
    /\ abortListener' = TRUE
    /\ pc' = "search"
    /\ UNCHANGED <<poolVars, mailVars, inputVars, signalVars, stalls, faults, isStopped,
                   scrapedData, sink, returned, exitReason, scrollAttempts,
                   lastResultsCount, consecutiveNoNewResults, listings, offset,
                   results, inflight, batchResults, dispatched, extracted>>
    /\ UNCHANGED <<threadVars, recordVars, lifeVars, terminated, detailPages>>
    /\ UNCHANGED <<overtaken, serverVars>>

\* part_000:132-142 throwing: chromium.launch (no browser yet) or newContext /
\* newPage (browser launched); caught at part_000:317
LaunchFault ==
    /\ pc = "launch"
    /\ faults # 0
    /\ faults' = Spend(faults)
    /\ \E up \in BOOLEAN :
        /\ browser' = up
        /\ browserOpen' = up
        /\ Return(scrapedData, "fatal", up)
    /\ UNCHANGED <<poolVars, mailVars, inputVars, signalVars, stalls, isStopped, abortListener,
                   scrapedData, sink, scrollAttempts, lastResultsCount,
                   consecutiveNoNewResults, listings, offset, results, inflight,
                   batchResults, dispatched, extracted>>
    /\ UNCHANGED <<threadVars, recordVars, lifeVars, detailPages>>
    /\ UNCHANGED <<overtaken, serverVars>>

\* part_000:149-156 and 273: the feed appeared; the loop is entered
SearchDone ==
    /\ pc = "search"
    /\ LoopTop(isStopped, scrapedData, scrollAttempts)
    /\ UNCHANGED <<poolVars, mailVars, inputVars, signalVars, stalls, faults, browser, isStopped,
                   abortListener, scrapedData, sink, scrollAttempts,
                   lastResultsCount, consecutiveNoNewResults, listings, offset,
                   results, inflight, batchResults, dispatched, extracted>>
    /\ UNCHANGED <<threadVars, recordVars, lifeVars, browserOpen, detailPages>>
    /\ UNCHANGED <<overtaken, serverVars>>

\* SearchFault letting the fault out of the invocation
SearchFaultRethrown ==
    /\ pc = "search"
    /\ faults # 0
    /\ faults' = Spend(faults)
    /\ returned' = <<>>
    /\ exitReason' = "rejected"
    /\ terminated' = terminated \cup Range(workers)
    /\ pc' = "finally"
    /\ UNCHANGED <<poolVars, mailVars, inputVars, signalVars, stalls, browser, isStopped,
                   abortListener, scrapedData, sink, scrollAttempts,
                   lastResultsCount, consecutiveNoNewResults, listings, offset,
                   results, inflight, batchResults, dispatched, extracted>>
    /\ UNCHANGED <<threadVars, recordVars, lifeVars, browserOpen, detailPages>>
    /\ UNCHANGED <<overtaken, serverVars>>

\* part_000:149-152 throwing (the feed never appears); caught at part_000:317
SearchFault ==
    /\ pc = "search"
    /\ faults # 0
    /\ faults' = Spend(faults)
    /\ Return(scrapedData, "fatal", TRUE)
    /\ UNCHANGED <<poolVars, mailVars, inputVars, signalVars, stalls, browser, isStopped,
                   abortListener, scrapedData, sink, scrollAttempts,
                   lastResultsCount, consecutiveNoNewResults, listings, offset,
                   results, inflight, batchResults, dispatched, extracted>>
    /\ UNCHANGED <<threadVars, recordVars, lifeVars, browserOpen, detailPages>>
    /\ UNCHANGED <<overtaken, serverVars>>

\* ScrollFault not counting the iteration
ScrollFaultNotCounting ==
    /\ pc = "scroll"
    /\ faults # 0
    /\ faults' = Spend(faults)
    /\ \E closed \in BOOLEAN :
        IF closed
        THEN /\ Return(scrapedData, "closed", TRUE)
             /\ UNCHANGED scrollAttempts
        ELSE /\ UNCHANGED scrollAttempts
             /\ LoopTop(isStopped, scrapedData, scrollAttempts)
    /\ UNCHANGED <<poolVars, mailVars, inputVars, signalVars, stalls, browser, isStopped,
                   abortListener, scrapedData, sink, lastResultsCount,
                   consecutiveNoNewResults, listings, offset, results, inflight,
                   batchResults, dispatched, extracted>>
    /\ UNCHANGED <<threadVars, recordVars, lifeVars, browserOpen, detailPages>>
    /\ UNCHANGED <<overtaken, serverVars>>

\* part_000:308-312: a fault of part_000:275-284, caught in the loop
ScrollFault ==
    /\ pc = "scroll"
    /\ faults # 0
    /\ faults' = Spend(faults)
    /\ \E closed \in BOOLEAN :
        IF closed
        THEN /\ Return(scrapedData, "closed", TRUE)
             /\ UNCHANGED scrollAttempts
        ELSE /\ scrollAttempts' = scrollAttempts + 1
             /\ LoopTop(isStopped, scrapedData, scrollAttempts + 1)
    /\ UNCHANGED <<poolVars, mailVars, inputVars, signalVars, stalls, browser, isStopped,
                   abortListener, scrapedData, sink, lastResultsCount,
                   consecutiveNoNewResults, listings, offset, results, inflight,
                   batchResults, dispatched, extracted>>
    /\ UNCHANGED <<threadVars, recordVars, lifeVars, browserOpen, detailPages>>
    /\ UNCHANGED <<overtaken, serverVars>>

\* AfterBatch calling the sink for the first record of the batch only
AfterBatchOneCall(res, n) ==
    /\ scrapedData' = scrapedData \o Emitted(res)
    /\ sink' = sink \o (IF res = <<>> THEN <<>> ELSE <<Emitted(res)[1]>>)
    /\ lastResultsCount' = n
    /\ consecutiveNoNewResults' = 0
    /\ scrollAttempts' = scrollAttempts + 1
    /\ LoopTop(isStopped, scrapedData \o Emitted(res), scrollAttempts + 1)

\* part_000:289-298 once processListingsBatch returned res for the n handles
\* enumerated: the emit loop, the counters, scrollAttempts++ and the loop top
AfterBatch(res, n) ==
    /\ scrapedData' = scrapedData \o Emitted(res)
    /\ sink' = sink \o Emitted(res)
    /\ lastResultsCount' = n
    /\ consecutiveNoNewResults' = 0
    /\ scrollAttempts' = scrollAttempts + 1
    /\ LoopTop(isStopped, scrapedData \o Emitted(res), scrollAttempts + 1)

\* part_000:163-169: the top of the for loop with i = at, res collected so far
\* and pages the detail pages open: the checkpoint, then either the next chunk
\* is dispatched, each callback opening its detail page, or the batch returns
BatchTop(res, n, at, pages) ==
    IF at < n - lastResultsCount /\ ~isStopped
    THEN /\ offset' = at
         /\ detailPages' = pages \cup Batch(lastResultsCount, n, at)
         /\ results' = res
         /\ inflight' = Batch(lastResultsCount, n, at)
         /\ batchResults' = <<>>
         /\ dispatched' = [p \in DOMAIN dispatched |->
                IF p \in Batch(lastResultsCount, n, at)
                THEN dispatched[p] + 1 ELSE dispatched[p]]
         /\ pc' = "chunk"
         /\ UNCHANGED <<scrapedData, sink, lastResultsCount,
                        consecutiveNoNewResults, scrollAttempts, returned,
                        exitReason, terminated>>
    ELSE /\ offset' = 0
         /\ detailPages' = pages
         /\ results' = <<>>
         /\ inflight' = {}
         /\ batchResults' = <<>>
         /\ UNCHANGED dispatched
         /\ AfterBatch(res, n)

\* part_000:275-305: the scroll settled and n handles were enumerated
ScrollDone(n) ==
    /\ pc = "scroll"
    /\ listings' = n
    /\ IF n > lastResultsCount
       THEN /\ page = Unlimited \/ n = Min(avail, lastResultsCount + page)
            /\ BatchTop(<<>>, n, 0, detailPages)
            /\ overtaken' = FALSE
            /\ UNCHANGED stalls
       ELSE /\ lastResultsCount = avail \/ stalls # 0
            /\ stalls' = IF lastResultsCount = avail THEN stalls ELSE Spend(stalls)
            /\ consecutiveNoNewResults' = consecutiveNoNewResults + 1
            /\ IF consecutiveNoNewResults + 1 >= 5
               THEN /\ pc' = "click"
                    /\ UNCHANGED <<scrollAttempts, returned, exitReason,
                                   terminated>>
               ELSE /\ scrollAttempts' = scrollAttempts + 1
                    /\ LoopTop(isStopped, scrapedData, scrollAttempts + 1)
            /\ UNCHANGED <<scrapedData, sink, lastResultsCount, offset, results,
                           inflight, batchResults, dispatched, detailPages,
                           overtaken>>
    /\ UNCHANGED <<poolVars, mailVars, inputVars, signalVars, faults, browser,
                   isStopped, abortListener, extracted>>
    /\ UNCHANGED <<threadVars, recordVars, lifeVars, browserOpen>>
    /\ UNCHANGED serverVars

\* ClickDone leaving the loop as soon as the click is attempted
ClickDoneLeavingEarly ==
    /\ pc = "click"
    /\ Return(scrapedData, "stagnation", TRUE)
    /\ UNCHANGED <<poolVars, mailVars, inputVars, signalVars, stalls, faults, browser,
                   isStopped, abortListener, scrapedData, sink, scrollAttempts,
                   lastResultsCount, consecutiveNoNewResults, listings, offset,
                   results, inflight, batchResults, dispatched, extracted>>
    /\ UNCHANGED <<threadVars, recordVars, lifeVars, browserOpen, detailPages>>
    /\ UNCHANGED <<overtaken, serverVars>>

\* part_000:302-307: the click on "Show more" settled, resolved or rejected
ClickDone ==
    /\ pc = "click"
    /\ IF consecutiveNoNewResults >= 8
       THEN /\ Return(scrapedData, "stagnation", TRUE)
            /\ UNCHANGED scrollAttempts
       ELSE /\ scrollAttempts' = scrollAttempts + 1
            /\ LoopTop(isStopped, scrapedData, scrollAttempts + 1)
    /\ UNCHANGED <<poolVars, mailVars, inputVars, signalVars, stalls, faults, browser, isStopped,
                   abortListener, scrapedData, sink, lastResultsCount,
                   consecutiveNoNewResults, listings, offset, results, inflight,
                   batchResults, dispatched, extracted>>
    /\ UNCHANGED <<threadVars, recordVars, lifeVars, browserOpen, detailPages>>
    /\ UNCHANGED <<overtaken, serverVars>>

\* part_000:258-259, 263, 267-269: the callback of handle p returns r: a record,
\* after it closed its detail page, or null from the catch, which closes
\* nothing; when it is the last of its chunk, Promise.all resolves, the non-null
\* results are collected and the for loop goes on with i += batchSize
Settle(p, r) ==
    LET br == [q \in DOMAIN batchResults \cup {p} |->
                  IF q = p THEN r ELSE batchResults[q]]
        batchSize == Min(MAX_CONCURRENT, listings - lastResultsCount)
        pages == IF r = Null THEN detailPages ELSE detailPages \ {p}
    IN /\ extracted' = IF r = Null THEN extracted ELSE extracted \cup {p}
       /\ overtaken' = (overtaken \/ \E q \in inflight : q < p)
       /\ IF inflight # {p}
          THEN /\ inflight' = inflight \ {p}
               /\ batchResults' = br
               /\ detailPages' = pages
               /\ UNCHANGED <<pc, scrapedData, sink, returned, exitReason,
                              scrollAttempts, lastResultsCount,
                              consecutiveNoNewResults, offset, results, dispatched,
                              terminated>>
          ELSE BatchTop(results \o Filtered(br, 1, listings), listings,
                        offset + batchSize, pages)

\* the dispatch of handle p in the running invocation, if one was made
RequestOf(p) ==
    {id \in DOMAIN requests :
        requests[id].pos = p /\ requests[id].inv = invocations}

\* part_000:261-264: a fault in the callback of handle p, in the statements of
\* part_000:170-217 after the detail page was opened and before a dispatch (a
\* navigation that times out, say); it returns null
ExtractionFault(p) ==
    /\ pc = "chunk"
    /\ p \in inflight
    /\ RequestOf(p) = {}
    /\ faults # 0
    /\ faults' = Spend(faults)
    /\ Settle(p, Null)
    /\ UNCHANGED <<poolVars, mailVars, inputVars, signalVars, stalls, browser, isStopped,
                   abortListener, listings>>
    /\ UNCHANGED <<threadVars, recordVars, lifeVars, browserOpen>>
    /\ UNCHANGED serverVars

\* part_000:169-219, 258-259: the callback of handle p ran through without an
\* e-mail dispatch and returns its record
ExtractionDone(p) ==
    /\ pc = "chunk"
    /\ p \in inflight
    /\ ~(extractEmail /\ sites[p] # NA)
    /\ Settle(p, [pos |-> p, email |-> NA])
    /\ UNCHANGED <<poolVars, mailVars, inputVars, signalVars, stalls, faults, browser, isStopped,
                   abortListener, listings>>
    /\ UNCHANGED <<threadVars, recordVars, lifeVars, browserOpen>>
    /\ UNCHANGED serverVars

----------------------------------------------------------------------------
(* The e-mail dispatch of processListingsBatch and the worker threads *)

\* the e-mail value null of a reply (worker.js:126, 132, 138)
NullEmail == "null"

\* workers[i] for an index outside the array, and the worker of a dispatch that
\* got none
Undefined == 0

\* the cursor once (currentWorkerIndex + 1) % 0 was computed
NaN == 0 - 1

\* part_000:22: workers[currentWorkerIndex]
getNextWorker ==
    IF currentWorkerIndex = NaN \/ currentWorkerIndex + 1 > Len(workers)
    THEN Undefined
    ELSE workers[currentWorkerIndex + 1]

\* part_000:23: the cursor after getNextWorker
NextWorkerIndex ==
    IF currentWorkerIndex = NaN \/ Len(workers) = 0
    THEN NaN
    ELSE (currentWorkerIndex + 1) % Len(workers)

\* TimeoutResult reporting an error
TimeoutResultAsError == [error |-> TRUE, email |-> NA]

\* part_000:228: what the timeout resolves the dispatch with
TimeoutResult == [error |-> FALSE, email |-> NA]

\* worker.js:117-172: the reply of the handler to a request, by what the visit
\* of the site comes to: no website in the request (worker.js:125-127), an
\* address found (at once, or on a slow site only after more than 30 seconds),
\* none found after all contact paths, or initBrowser returning null
WorkerResult(site) ==
    CASE site = NA -> [error |-> FALSE, email |-> NullEmail]
      [] site \in {"found", "slow"} -> [error |-> FALSE, email |-> "owner@realbiz.in"]
      [] site = "none" -> [error |-> FALSE, email |-> NullEmail]
      [] OTHER -> [error |-> TRUE, email |-> NullEmail]

\* worker.js:164: the reply of the normal path is posted only if the page is not
\* closed by then; on a "closed" site the page of the worker is closed during
\* the visit (its browser died, say)
Replies(site) == site # "closed"

\* worker.js:137, 173-177: the finally block closes the browser of the handler's
\* local variable, which is set only once initBrowser returned a session
ClosesBrowser(site) == site # "broken"

\* the site of a request takes the worker more than the 30 seconds of
\* part_000:229, if it answers at all
Slow(id) == sites[requests[id].pos] \in {"slow", "closed"}

\* part_000:250: business.email = result.error ? 'N/A' : (result.email || 'N/A')
EmailOf(result) ==
    IF result.error THEN NA
    ELSE IF result.email = NullEmail \/ result.email = "" THEN NA
    ELSE result.email

\* Matches taking any message of the worker
MatchesAnyMessage(data, id) == data.requestId \in DOMAIN requests

\* part_000:233: the test of messageHandler for a message data, in the dispatch
\* with requestId id
Matches(data, id) == data.requestId = id

\* part_000:219-255: the callback of handle p reached the dispatch: a worker is
\* taken and the timer set; then the handler is registered and the request
\* posted, or, the worker being undefined, worker.on throws, the promise is
\* rejected, the catch of part_000:252 sets the e-mail to 'N/A' and the callback
\* returns its record, the timer still pending
DispatchEmail(p) ==
    /\ pc = "chunk"
    /\ p \in inflight
    /\ extractEmail /\ sites[p] # NA
    /\ RequestOf(p) = {}
    /\ LET worker == getNextWorker
           requestId == Len(requests) + 1
       IN /\ currentWorkerIndex' = NextWorkerIndex
          /\ requests' = Append(requests,
                [pos |-> p, worker |-> worker, inv |-> invocations,
                 alive |-> worker \notin terminated])
          /\ timers' = timers \cup {requestId}
          /\ IF worker = Undefined
             THEN /\ resolutions' = Append(resolutions,
                        <<[by |-> "throw", requestId |-> requestId]>>)
                  /\ Settle(p, [pos |-> p, email |-> NA])
                  /\ UNCHANGED <<handlers, inbox, browser, isStopped,
                                 abortListener, listings>>
             ELSE /\ resolutions' = Append(resolutions, <<>>)
                  /\ handlers' = handlers \cup {<<worker, requestId>>}
                  /\ inbox' = [inbox EXCEPT ![worker] = @ \cup {requestId}]
                  /\ UNCHANGED <<crawlVars, terminated, detailPages, overtaken>>
    /\ UNCHANGED <<workers, outbox, ignored, inputVars, signalVars, stalls, faults,
                   threadVars, recordVars, lifeVars, browserOpen>>
    /\ UNCHANGED serverVars

\* worker.js:117-136: the 'message' event in worker w: the handler takes the
\* request and initBrowser settles; with a session, or with null, be it that
\* chromium.launch failed or that the browser was launched and newContext or
\* newPage failed
WorkerBegin(w, id) ==
    /\ pc # "crashed"
    /\ w \notin terminated
    /\ id \in inbox[w]
    /\ inbox' = [inbox EXCEPT ![w] = @ \ {id}]
    /\ handling' = handling \cup {id}
    /\ \E launched \in BOOLEAN :
        /\ sites[requests[id].pos] # "broken" => launched
        /\ workerBrowsers' = IF launched THEN workerBrowsers \cup {id}
                             ELSE workerBrowsers
    /\ UNCHANGED <<poolVars, requests, timers, handlers, resolutions, outbox,
                   ignored, crawlVars, inputVars, signalVars, stalls, faults,
                   answered, finished, recordVars, lifeVars, terminated,
                   browserOpen, detailPages>>
    /\ UNCHANGED <<overtaken, serverVars>>

\* worker.js:131-133, 140-181: the rest of the handler of a request: the visit,
\* the reply if one is posted, and the finally block
WorkerReply(w, id) ==
    /\ pc # "crashed"
    /\ w \notin terminated
    /\ id \in handling
    /\ requests[id].worker = w
    /\ Slow(id) => id \notin timers
    /\ handling' = handling \ {id}
    /\ finished' = finished \cup {id}
    /\ LET site == sites[requests[id].pos]
       IN /\ IF Replies(site)
             THEN /\ outbox' = outbox \cup
                        {[from |-> w, requestId |-> id, result |-> WorkerResult(site)]}
                  /\ answered' = answered \cup {id}
             ELSE UNCHANGED <<outbox, answered>>
          /\ workerBrowsers' = IF ClosesBrowser(site) THEN workerBrowsers \ {id}
                               ELSE workerBrowsers
    /\ UNCHANGED <<poolVars, requests, timers, handlers, resolutions, inbox, ignored,
                   crawlVars, inputVars, signalVars, stalls, faults, recordVars,
                   lifeVars, terminated, browserOpen, detailPages>>
    /\ UNCHANGED <<overtaken, serverVars>>

\* part_000:232-238, 250, 258-259: the 'message' event of a worker in the main
\* thread: every handler registered on that worker is called with the data; the
\* one it matches clears its timer, removes itself and resolves, and the
\* callback of its handle goes on to return the record
DeliverReply(m) ==
    /\ pc # "crashed"
    /\ m \in outbox
    /\ outbox' = outbox \ {m}
    /\ LET hit == {id \in DOMAIN requests :
                     <<m.from, id>> \in handlers /\ Matches(m, id)}
           called == {id \in DOMAIN requests : <<m.from, id>> \in handlers}
       IN /\ ignored' = ignored \cup {<<id, m.requestId>> : id \in called \ hit}
          /\ IF hit = {}
             THEN UNCHANGED <<timers, handlers, resolutions, crawlVars, terminated,
                              detailPages, overtaken>>
             ELSE LET id == CHOOSE id \in hit : TRUE
                  IN /\ timers' = timers \ hit
                     /\ handlers' = handlers \ {<<m.from, h>> : h \in hit}
                     /\ resolutions' = [r \in DOMAIN resolutions |->
                           IF r \in hit
                           THEN Append(resolutions[r],
                                       [by |-> "reply", requestId |-> m.requestId,
                                        result |-> m.result])
                           ELSE resolutions[r]]
                     /\ Settle(requests[id].pos,
                               [pos |-> requests[id].pos,
                                email |-> EmailOf(m.result)])
                     /\ UNCHANGED <<browser, isStopped, abortListener, listings>>
    /\ UNCHANGED <<poolVars, requests, inbox, inputVars, signalVars, stalls, faults,
                   threadVars, recordVars, lifeVars, browserOpen>>
    /\ UNCHANGED serverVars

\* part_000:226-229, 250, 258-259: the 30 second timer of a dispatch fires. With
\* a worker it removes the handler and resolves; with the worker undefined,
\* worker.removeListener throws in the timer callback, and the exception, which
\* nothing catches, ends the process
TimeoutFire(id) ==
    /\ pc # "crashed"
    /\ id \in timers
    /\ Slow(id) \/ requests[id].worker = Undefined
    /\ timers' = timers \ {id}
    /\ IF requests[id].worker = Undefined
       THEN /\ pc' = "crashed"
            /\ UNCHANGED <<handlers, resolutions, browser, isStopped, abortListener,
                           scrapedData, sink, returned, exitReason, scrollAttempts,
                           lastResultsCount, consecutiveNoNewResults, listings,
                           offset, results, inflight, batchResults, dispatched,
                           extracted, terminated, detailPages, overtaken>>
       ELSE /\ handlers' = handlers \ {<<requests[id].worker, id>>}
            /\ resolutions' = [resolutions EXCEPT ![id] =
                  Append(@, [by |-> "timeout", requestId |-> id,
                             result |-> TimeoutResult])]
            /\ Settle(requests[id].pos,
                      [pos |-> requests[id].pos, email |-> EmailOf(TimeoutResult)])
            /\ UNCHANGED <<browser, isStopped, abortListener, listings>>
    /\ UNCHANGED <<poolVars, requests, inbox, outbox, ignored, inputVars,
                   signalVars, stalls, faults, threadVars, recordVars, lifeVars,
                   browserOpen>>
    /\ UNCHANGED serverVars

\* part_000:332-335, 338: cleanupWorkers, run by the SIGTERM listener; with a
\* listener installed the signal no longer ends the process
cleanupWorkers ==
    /\ pc # "crashed"
    /\ terminated' = terminated \cup Range(workers)
    /\ workers' = <<>>
    /\ UNCHANGED <<currentWorkerIndex, mailVars, crawlVars, inputVars, signalVars,
                   stalls, faults, threadVars, recordVars, lifeVars, browserOpen,
                   detailPages>>
    /\ UNCHANGED <<overtaken, serverVars>>

\* part_000:325-328: browser.close() resolved, which closes every page of the
\* browser with it, and the invocation settles
Finally ==
    /\ pc = "finally"
    /\ pc' = "done"
    /\ browserOpen' = FALSE
    /\ detailPages' = {}
    /\ UNCHANGED <<threadVars, recordVars, lifeVars, terminated>>
    /\ UNCHANGED <<poolVars, mailVars, inputVars, signalVars, stalls, faults, browser, isStopped,
                   abortListener, scrapedData, sink, returned, exitReason,
                   scrollAttempts, lastResultsCount, consecutiveNoNewResults,
                   listings, offset, results, inflight, batchResults, dispatched, extracted>>
    /\ UNCHANGED <<overtaken, serverVars>>

----------------------------------------------------------------------------
(* The fields of a business, part_000:176-217. A text is the sequence of its *)
(* characters.                                                               *)

\* 'N/A' as a text
NAText == <<"N", "/", "A">>

\* part_000:190, 193: '+91'
DefaultCountryCode == <<"+", "9", "1">>

\* \d
IsDigit(c) == c \in {"0", "1", "2", "3", "4", "5", "6", "7", "8", "9"}

\* the white space String.prototype.trim removes, of the characters in use
IsSpace(c) == c = " "

RECURSIVE TrimStart(_)
TrimStart(t) ==
    IF t # <<>> /\ IsSpace(Head(t)) THEN TrimStart(Tail(t)) ELSE t

RECURSIVE TrimEnd(_)
TrimEnd(t) ==
    IF t # <<>> /\ IsSpace(t[Len(t)]) THEN TrimEnd(SubSeq(t, 1, Len(t) - 1)) ELSE t

\* String.prototype.trim
Trim(t) == TrimEnd(TrimStart(t))

\* t without the n characters from position i on
Cut(t, i, n) == SubSeq(t, 1, i - 1) \o SubSeq(t, i + n, Len(t))

\* String.prototype.split(','), part_000:210
RECURSIVE Split(_)
Split(t) ==
    IF \E i \in 1..Len(t) : t[i] = ","
    THEN LET i == CHOOSE i \in 1..Len(t) :
                      t[i] = "," /\ \A j \in 1..(i - 1) : t[j] # ","
         IN <<SubSeq(t, 1, i - 1)>> \o Split(SubSeq(t, i + 1, Len(t)))
    ELSE <<t>>

\* the number of digits of t from position i on, up to the first other character
RECURSIVE DigitRun(_, _)
DigitRun(t, i) ==
    IF i <= Len(t) /\ IsDigit(t[i]) THEN 1 + DigitRun(t, i + 1) ELSE 0

\* the least of a set of positions, 0 if there is none: a regular expression
\* without the g flag matches at the first position it can
First(positions) ==
    IF positions = {} THEN 0
    ELSE CHOOSE i \in positions : \A j \in positions : i <= j

\* part_000:185: phone.match(/\+(\d+)/), the position of the match
PhoneMatch(t) ==
    First({i \in 1..Len(t) : t[i] = "+" /\ DigitRun(t, i + 1) >= 1})

\* part_000:214: statePin.match(/\d{6}/), the position of the match
PinMatch(t) == First({i \in 1..Len(t) : DigitRun(t, i) >= 6})

\* PhoneFields leaving the country code in the phone
PhoneFieldsKeepingPrefix(element) ==
    IF ~element.present
    THEN [phone |-> NAText, countryCode |-> NAText]
    ELSE LET t == element.text
             m == PhoneMatch(t)
         IN IF m # 0
            THEN [phone |-> Trim(t),
                  countryCode |-> SubSeq(t, m, m + DigitRun(t, m + 1))]
            ELSE IF t # <<>> /\ t[1] = "0"
                 THEN [phone |-> Trim(Tail(t)), countryCode |-> DefaultCountryCode]
                 ELSE [phone |-> t, countryCode |-> DefaultCountryCode]

\* part_000:177-195: phone and countryCode, from the phone element if there is one
PhoneFields(element) ==
    IF ~element.present
    THEN [phone |-> NAText, countryCode |-> NAText]
    ELSE LET t == element.text
             m == PhoneMatch(t)
         IN IF m # 0
            THEN LET n == 1 + DigitRun(t, m + 1)
                 IN [phone |-> Trim(Cut(t, m, n)),
                     countryCode |-> SubSeq(t, m, m + n - 1)]
            ELSE IF t # <<>> /\ t[1] = "0"
                 THEN [phone |-> Trim(Tail(t)), countryCode |-> DefaultCountryCode]
                 ELSE [phone |-> t, countryCode |-> DefaultCountryCode]

\* AddressFields reading the first two segments instead of the last two
AddressFieldsOfFirstSegments(address) ==
    LET addressParts == Split(address)
        n == Len(addressParts)
    IN IF n >= 2
       THEN LET statePin == Trim(addressParts[2])
                m == PinMatch(statePin)
            IN [city |-> Trim(addressParts[1]),
                pincode |-> IF m # 0 THEN SubSeq(statePin, m, m + 5) ELSE NAText,
                state |-> IF m # 0 THEN Trim(Cut(statePin, m, 6)) ELSE statePin]
       ELSE [x \in {} |-> x]

\* part_000:210-217: the properties the address split adds to the business
AddressFields(address) ==
    LET addressParts == Split(address)
        n == Len(addressParts)
    IN IF n >= 2
       THEN LET statePin == Trim(addressParts[n])
                m == PinMatch(statePin)
            IN [city |-> Trim(addressParts[n - 1]),
                pincode |-> IF m # 0 THEN SubSeq(statePin, m, m + 5) ELSE NAText,
                state |-> IF m # 0 THEN Trim(Cut(statePin, m, 6)) ELSE statePin]
       ELSE [x \in {} |-> x]

\* part_000:197-217: the business object, of a listing whose other elements are
\* missing, for a phone element and an address text
Business(element, address) ==
    [name |-> <<"n">>,
     website |-> NAText,
     phone |-> PhoneFields(element).phone,
     countryCode |-> PhoneFields(element).countryCode,
     address |-> address,
     rating |-> NAText,
     reviews |-> NAText,
     category |-> NAText,
     email |-> NAText] @@ AddressFields(address)

\* part_000:176-217 for one listing: its fields are read and the business built
ExtractFields ==
    /\ DOMAIN business = {}
    /\ business' = Business(phoneText, addressText)
    /\ UNCHANGED <<phoneText, addressText, crawlVars, inputVars, poolVars, mailVars,
                   signalVars, stalls, faults, threadVars, lifeVars, terminated,
                   browserOpen, detailPages>>
    /\ UNCHANGED <<overtaken, serverVars>>

----------------------------------------------------------------------------
(* The HTTP server (part_003) *)

\* part_003:8 the null of currentScraping; a controller is a positive number
None == 0

\* part_003:20 and 22
ScrapingStopped == "Scraping stopped"
NoActiveScraping == "No active scraping to stop"

\* part_003:27-38: POST /scrape makes a controller, stores it in currentScraping
\* over whatever was there and calls scrapeGoogleMaps with its signal
ScrapeRequest ==
    /\ controllers < MaxScrapes
    /\ controllers' = controllers + 1
    /\ currentScraping' = controllers + 1
    /\ running' = running \cup {controllers + 1}
    /\ UNCHANGED <<abortedControllers, stops>>
    /\ UNCHANGED <<crawlVars, inputVars, poolVars, mailVars, signalVars, stalls,
                   faults, threadVars, recordVars, lifeVars, terminated,
                   browserOpen, detailPages, overtaken>>

\* part_003:38, 70-76: the scrapeGoogleMaps call of controller c resolved and
\* 'complete' is written; currentScraping is left as it is
ScrapeComplete(c) ==
    /\ c \in running
    /\ running' = running \ {c}
    /\ UNCHANGED <<currentScraping, controllers, abortedControllers, stops>>
    /\ UNCHANGED <<crawlVars, inputVars, poolVars, mailVars, signalVars, stalls,
                   faults, threadVars, recordVars, lifeVars, terminated,
                   browserOpen, detailPages, overtaken>>

\* part_003:78-87: the scrapeGoogleMaps call of controller c rejected (the
\* browser.close() of part_000:326 can); the catch clears currentScraping
ScrapeFailed(c) ==
    /\ c \in running
    /\ running' = running \ {c}
    /\ currentScraping' = None
    /\ UNCHANGED <<controllers, abortedControllers, stops>>
    /\ UNCHANGED <<crawlVars, inputVars, poolVars, mailVars, signalVars, stalls,
                   faults, threadVars, recordVars, lifeVars, terminated,
                   browserOpen, detailPages, overtaken>>

\* part_003:16-24: POST /stop-scrape
StopScrape ==
    /\ Len(stops) < MaxStops
    /\ IF currentScraping # None
       THEN /\ abortedControllers' = abortedControllers \cup {currentScraping}
            /\ currentScraping' = None
            /\ stops' = Append(stops, [message |-> ScrapingStopped,
                                       called |-> {currentScraping},
                                       running |-> running,
                                       aborted |-> abortedControllers
                                                      \cup {currentScraping}])
       ELSE /\ stops' = Append(stops, [message |-> NoActiveScraping,
                                       called |-> {},
                                       running |-> running,
                                       aborted |-> abortedControllers])
            /\ UNCHANGED <<currentScraping, abortedControllers>>
    /\ UNCHANGED <<controllers, running>>
    /\ UNCHANGED <<crawlVars, inputVars, poolVars, mailVars, signalVars, stalls,
                   faults, threadVars, recordVars, lifeVars, terminated,
                   browserOpen, detailPages, overtaken>>

\* the server's requests; the scrapes themselves are the crawl above, of which
\* the server sees the start and the settling
Server ==
    \/ ScrapeRequest
    \/ \E c \in running : ScrapeComplete(c)
    \/ \E c \in running : ScrapeFailed(c)
    \/ StopScrape

----------------------------------------------------------------------------
(* Specifications *)

\* the state once the modules are loaded, before scrapeGoogleMaps is called
InitProgram ==
    /\ workers = <<>>
    /\ currentWorkerIndex = 0
    /\ pc = "idle"
    /\ browser = FALSE
    /\ aborted = FALSE
    /\ sinkAtAbort = <<>>
    /\ abortListener = FALSE
    /\ isStopped = FALSE
    /\ scrapedData = <<>>
    /\ sink = <<>>
    /\ returned = <<>>
    /\ exitReason = "none"
    /\ scrollAttempts = 0
    /\ lastResultsCount = 0
    /\ consecutiveNoNewResults = 0
    /\ listings = 0
    /\ offset = 0
    /\ results = <<>>
    /\ inflight = {}
    /\ batchResults = <<>>
    /\ requests = <<>>
    /\ timers = {}
    /\ handlers = {}
    /\ resolutions = <<>>
    /\ inbox = <<>>
    /\ outbox = {}
    /\ ignored = {}
    /\ extracted = {}
    /\ spawned = 0
    /\ invocations = 0
    /\ terminated = {}
    /\ browserOpen = FALSE
    /\ detailPages = {}
    /\ handling = {}
    /\ workerBrowsers = {}
    /\ answered = {}
    /\ finished = {}
    /\ overtaken = FALSE
    /\ currentScraping = None
    /\ controllers = 0
    /\ running = {}
    /\ abortedControllers = {}
    /\ stops = <<>>

\* no listing is looked at one field at a time
NoRecord ==
    /\ phoneText = <<>>
    /\ addressText = <<>>
    /\ business = <<>>

\* a crawl without e-mail discovery over a small feed, with an environment free
\* to stall and to fault at will
Init ==
    /\ InitProgram
    /\ NoRecord
    /\ extractEmail = FALSE
    /\ total \in 1..MaxTotal
    /\ avail \in 0..MaxFeed
    /\ page = Unlimited
    /\ stalls = Unlimited
    /\ faults = Unlimited
    /\ sites = [p \in 1..avail |-> NA]
    /\ dispatched = [p \in 1..avail |-> 0]

Crawl ==
    \/ Invoke
    \/ Abort
    \/ LaunchDone
    \/ LaunchFault
    \/ SearchDone
    \/ SearchFault
    \/ ScrollFault
    \/ \E n \in 0..avail : ScrollDone(n)
    \/ ClickDone
    \/ \E p \in inflight : ExtractionFault(p)
    \/ \E p \in inflight : ExtractionDone(p)
    \/ Finally

Next == Crawl

Spec == Init /\ [][Next]_vars

\* what the website of handle p gives, in the runs with e-mail discovery
SitePlan(p) ==
    CASE p = 1 -> "slow"
      [] p = 3 -> "closed"
      [] p % 3 = 2 -> "found"
      [] p % 3 = 0 -> "none"
      [] OTHER -> "broken"

\* a crawl whose environment reveals new handles at every scroll while there
\* are any and raises a bounded number of faults: either with e-mail
\* discovery, the feed coming one handle at a time, every business with a
\* website and one business more than workers; or the feed coming at once
\* and taking two chunks, the first two and the last businesses with a website
InitPaged ==
    /\ InitProgram
    /\ NoRecord
    /\ stalls = 0
    /\ faults \in 0..MaxFaults
    /\ \/ /\ extractEmail = TRUE
          /\ avail = NUM_WORKERS + 1
          /\ page = 1
          /\ sites = [p \in 1..avail |-> SitePlan(p)]
       \/ /\ extractEmail \in BOOLEAN
          /\ avail = MAX_CONCURRENT + 1
          /\ page = avail
          /\ sites = [p \in 1..avail |->
                         IF p <= 2 \/ p = avail THEN SitePlan(p) ELSE NA]
    /\ total \in {MaxTotal, avail + 1}
    /\ dispatched = [p \in 1..avail |-> 0]

Mail ==
    \/ \E p \in inflight : DispatchEmail(p)
    \/ \E w \in DOMAIN inbox : \E id \in inbox[w] : WorkerBegin(w, id)
    \/ \E id \in handling : WorkerReply(requests[id].worker, id)
    \/ \E m \in outbox : DeliverReply(m)
    \/ \E id \in timers : TimeoutFire(id)

NextPaged == Crawl \/ Mail

SpecPaged == InitPaged /\ [][NextPaged]_vars

\* a process that is called more than once and may get SIGTERM at any moment,
\* in an environment that raises no fault and does not abort: e-mail discovery
\* over a feed of three businesses with websites, which the first scroll
\* reveals together and which reach the target count
InitProcess ==
    /\ InitProgram
    /\ NoRecord
    /\ stalls = 0
    /\ faults = 0
    /\ extractEmail = TRUE
    /\ avail = NUM_WORKERS - 1
    /\ page = avail
    /\ sites = [p \in 1..avail |-> IF p = 1 THEN "slow" ELSE "found"]
    /\ total = avail
    /\ dispatched = [p \in 1..avail |-> 0]

NextProcess ==
    \/ Invoke
    \/ InvokeAgain
    \/ cleanupWorkers
    \/ LaunchDone
    \/ SearchDone
    \/ \E n \in 0..avail : ScrollDone(n)
    \/ Finally
    \/ Mail

SpecProcess == InitProcess /\ [][NextProcess]_vars

\* the texts of length up to n over the characters cs
RECURSIVE Texts(_, _)
Texts(cs, n) ==
    IF n = 0 THEN {<<>>}
    ELSE Texts(cs, n - 1) \cup
         {Append(t, c) : t \in {u \in Texts(cs, n - 1) : Len(u) = n - 1}, c \in cs}

\* the segments the addresses are made of
Segments ==
    {<<>>,
     <<"c">>,
     <<" ", "a", " ">>,
     <<" ", "b", " ", "5", "6", "0", "0", "0", "1">>,
     <<"1", "2", "3", "4", "5", "6", "7">>}

\* the addresses of n segments
RECURSIVE Addresses(_)
Addresses(n) ==
    IF n = 1 THEN Segments
    ELSE {a \o <<",">> \o g : a \in Addresses(n - 1), g \in Segments}

\* the fields of one listing: with or without a phone element, and an address
\* text of up to MaxSegments segments or 'N/A' for a missing address element
InitRecord ==
    /\ InitProgram
    /\ extractEmail = FALSE
    /\ total = 1
    /\ avail = 0
    /\ page = Unlimited
    /\ stalls = 0
    /\ faults = 0
    /\ sites = <<>>
    /\ dispatched = <<>>
    /\ phoneText \in
          {[present |-> FALSE, text |-> <<>>]} \cup
          {[present |-> TRUE, text |-> t] :
              t \in Texts({"+", "0", "9", " "}, MaxPhoneLen)}
    /\ addressText \in
          {NAText} \cup UNION {Addresses(n) : n \in 1..MaxSegments}
    /\ business = <<>>

NextRecord == ExtractFields

SpecRecord == InitRecord /\ [][NextRecord]_vars

\* the server taking up to MaxScrapes /scrape and MaxStops /stop-scrape requests
InitServer ==
    /\ InitProgram
    /\ NoRecord
    /\ extractEmail = FALSE
    /\ total = 1
    /\ avail = 0
    /\ page = Unlimited
    /\ stalls = 0
    /\ faults = 0
    /\ sites = <<>>
    /\ dispatched = <<>>

NextServer == Server

SpecServer == InitServer /\ [][NextServer]_vars

----------------------------------------------------------------------------
(* Properties *)

\* a step dispatches a chunk: handles are in flight after it that were not before
NewChunk == \E p \in inflight' : p \notin inflight

\* a step begins a scroll iteration
NewScroll == pc' = "scroll" /\ (pc # "scroll" \/ scrollAttempts' # scrollAttempts)

SinkPositions == {sink[k].pos : k \in DOMAIN sink}

IsPrefix(s, t) == Len(s) <= Len(t) /\ SubSeq(t, 1, Len(s)) = s

\* C1: once the abort signal has fired, at any moment after the invocation
\* started, no step dispatches a new chunk and no step begins a new scroll
\* iteration.
C1_NoNewWorkAfterAbort == [][aborted => ~NewChunk /\ ~NewScroll]_vars

\* C2, as claimed, for a signal the listener received: the array the
\* invocation resolves with is the sink as it was when the signal fired.
C2_ResultIsSinkAtSignal == (isStopped /\ pc = "done") => returned = sinkAtAbort

\* C2, amended: when the signal fired during the invocation, the array the
\* invocation resolves with is exactly what the sink received by then, and it
\* begins with what the sink had received when the signal fired.
C2_ResultIsSinkAtReturn ==
    (aborted /\ pc \in {"finally", "done"}) =>
        /\ returned = sink
        /\ returned = scrapedData
        /\ IsPrefix(sinkAtAbort, returned)

\* a received signal, and records emitted after it
C2_Witness == pc = "done" /\ isStopped /\ Len(returned) > Len(sinkAtAbort)

\* C3: when a chunk is in flight, every record extracted in an earlier chunk
\* has been delivered to the sink.
C3_EmittedBeforeNextChunk ==
    pc = "chunk" =>
        \A p \in extracted :
            p \in SinkPositions \/ p \in Batch(lastResultsCount, listings, offset)

C4_Once ==
    \A p \in DOMAIN dispatched :
        /\ dispatched[p] <= 1
        /\ Cardinality({k \in DOMAIN sink : sink[k].pos = p}) <= 1
        /\ p \in SinkPositions => dispatched[p] = 1

C4_NothingNewNothingEmitted ==
    (pc = "scroll" /\ listings' <= lastResultsCount) =>
        sink' = sink /\ dispatched' = dispatched

\* C4: every handle is dispatched to extraction at most once and emitted at
\* most once, and a step of a scroll iteration that enumerates no more handles
\* than were seen dispatches and emits nothing.
C4_HandleOnce == []C4_Once /\ [][C4_NothingNewNothingEmitted]_vars

\* a handle emitted, then an iteration that revealed nothing new, after more
\* iterations than one growth and stagnation alone account for (7 + 1 + 1): a
\* fault was caught on the way
C4_Witness ==
    /\ Len(sink) = 1
    /\ lastResultsCount = 1
    /\ consecutiveNoNewResults = 1
    /\ scrollAttempts = 12

\* C5: the handles in flight all belong to the chunk at the current offset, so
\* no callback of a chunk starts before all of the chunk before it returned, and
\* there are at most MAX_CONCURRENT of them.
C5_ChunksInTurn ==
    /\ Cardinality(inflight) <= MAX_CONCURRENT
    /\ inflight \subseteq Batch(lastResultsCount, listings, offset)
    /\ pc # "chunk" => inflight = {}

\* the second chunk of an enumeration in flight
C5_Witness == pc = "chunk" /\ offset = MAX_CONCURRENT /\ inflight # {}

\* C6: the loop never counts more than 100 iterations, never scrolls on with
\* the stagnation counter at 8, and a scroll iteration begins only when no
\* cancellation was requested, the result count is below the target and fewer
\* than 100 iterations were counted.
C6_LoopStops ==
    /\ [](scrollAttempts <= 100)
    /\ [](consecutiveNoNewResults >= 8 => pc \in {"click", "finally", "done"})
    /\ [][NewScroll =>
            ~aborted /\ Len(scrapedData') < total /\ scrollAttempts' < 100]_vars

C7_Counter ==
    /\ consecutiveNoNewResults \in 0..8
    /\ pc = "click" => consecutiveNoNewResults >= 5
    /\ consecutiveNoNewResults = 8 => pc \in {"click", "finally", "done"}
    /\ exitReason = "stagnation" => consecutiveNoNewResults = 8
    /\ (pc \in {"finally", "done"} /\ exitReason = "loop") =>
           ~LoopCondition(isStopped, scrapedData, scrollAttempts)

C7_Counting ==
    /\ consecutiveNoNewResults' \in
           {consecutiveNoNewResults, consecutiveNoNewResults + 1, 0}
    /\ consecutiveNoNewResults' = consecutiveNoNewResults + 1 =>
           /\ pc = "scroll" /\ listings' <= lastResultsCount
           /\ consecutiveNoNewResults' >= 5 => pc' = "click"
           /\ consecutiveNoNewResults' < 5 => scrollAttempts' = scrollAttempts + 1
    /\ (consecutiveNoNewResults' = 0 /\ consecutiveNoNewResults > 0) =>
           listings' > lastResultsCount
    /\ lastResultsCount' # lastResultsCount => consecutiveNoNewResults' = 0
    /\ (pc = "click" /\ pc' # "click") =>
           IF consecutiveNoNewResults >= 8
           THEN pc' = "finally" /\ exitReason' = "stagnation"
           ELSE scrollAttempts' = scrollAttempts + 1

\* C7: the stagnation counter goes up by one in an iteration that enumerates no
\* more handles than were seen, and only then; it goes back to 0 when new
\* handles were processed, and only then; the click is attempted when it
\* reaches 5 or more and its outcome changes nothing; the loop ends on
\* stagnation exactly with the counter at 8, and any other end of the loop has
\* the while condition false.
C7_Stagnation == []C7_Counter /\ [][C7_Counting]_vars

\* the loop ended on stagnation after it had emitted a record, that is after
\* the counter was reset
C7_Witness == pc = "done" /\ exitReason = "stagnation" /\ Len(sink) >= 1

\* C8: a scroll iteration is in progress only with fewer results than the
\* target; every record extracted in an iteration is in the sink once its batch
\* returned, whatever the target; the sink and the results are the same.
C8_TargetCheckedAtTop ==
    /\ pc \in {"scroll", "click", "chunk"} => Len(scrapedData) < total
    /\ pc # "chunk" => SinkPositions = extracted
    /\ sink = scrapedData

\* more records than the target returned after a single iteration, which left
\* on the while condition without abort
C8_Witness ==
    /\ pc = "done"
    /\ exitReason = "loop"
    /\ ~aborted
    /\ scrollAttempts = 1
    /\ Len(returned) > total
    /\ returned = sink

\* C9: a dispatch has at most one resolve() call; it has none exactly while its
\* timer is pending, its handler is registered exactly that long and the
\* callback of its handle waits that long; a reply
\* that resolved it carries its own requestId and is what the worker answered
\* to it, and a timeout resolves it with {error: false, email: 'N/A'}.
C9_OneResponse ==
    \A id \in DOMAIN requests :
        /\ Len(resolutions[id]) <= 1
        /\ resolutions[id] = <<>> <=> id \in timers
        /\ id \in timers <=> <<requests[id].worker, id>> \in handlers
        /\ id \in timers => pc = "chunk" /\ requests[id].pos \in inflight
        /\ \A k \in DOMAIN resolutions[id] :
              LET r == resolutions[id][k]
              IN IF r.by = "reply"
                 THEN /\ r.requestId = id
                      /\ r.result = WorkerResult(sites[requests[id].pos])
                 ELSE r.result = [error |-> FALSE, email |-> "N/A"]

\* the late reply to a timed-out request reached the handler of a later
\* dispatch on the same worker, which left it and was resolved by its own reply
C9_Witness ==
    \E pair \in ignored :
        /\ pair[2] < pair[1]
        /\ requests[pair[1]].worker = requests[pair[2]].worker
        /\ resolutions[pair[2]] # <<>> /\ resolutions[pair[2]][1].by = "timeout"
        /\ resolutions[pair[1]] # <<>> /\ resolutions[pair[1]][1].by = "reply"

\* every record a callback has returned so far
AllRecords == Range(batchResults) \cup Range(results) \cup Range(sink)

\* C10: a dispatch the timer resolved got {error: false, email: 'N/A'}, the
\* callback of its handle returned the record with e-mail 'N/A', and the pool
\* still has its NUM_WORKERS workers, the one of that dispatch among them.
C10_TimeoutKeepsRecord ==
    /\ pc # "idle" => Len(workers) = NUM_WORKERS
    /\ \A id \in DOMAIN requests :
          (resolutions[id] # <<>> /\ resolutions[id][1].by = "timeout") =>
              /\ resolutions[id][1].result = [error |-> FALSE, email |-> "N/A"]
              /\ [pos |-> requests[id].pos, email |-> "N/A"] \in AllRecords
              /\ requests[id].worker \in Range(workers)

\* a dispatch timed out, and a later dispatch to the same worker was resolved
\* by the worker's reply with an address, which is in its emitted record
C10_Witness ==
    \E a, b \in DOMAIN requests :
        /\ a < b
        /\ requests[a].worker = requests[b].worker
        /\ resolutions[a] # <<>> /\ resolutions[a][1].by = "timeout"
        /\ resolutions[b] # <<>> /\ resolutions[b][1].by = "reply"
        /\ [pos |-> requests[a].pos, email |-> "N/A"] \in Range(sink)
        /\ [pos |-> requests[b].pos, email |-> "owner@realbiz.in"] \in Range(sink)

\* C11: the pool is created at most once and has its NUM_WORKERS workers from
\* then on, the same ones in the same order, and the k-th dispatch of the
\* process goes to worker k mod NUM_WORKERS of them.
C11_RoundRobin ==
    /\ spawned \in {0, NUM_WORKERS}
    /\ invocations > 0 => workers = [k \in 1..NUM_WORKERS |-> k]
    /\ \A k \in DOMAIN requests :
          requests[k].worker = ((k - 1) % NUM_WORKERS) + 1

\* C12: a worker never has two requests in handling at the same time.
C12_SerialPerWorker ==
    \A a, b \in handling : requests[a].worker = requests[b].worker => a = b

\* C13: once the handler of a request has finished, no browser it launched is
\* running.
C13_BrowsersClosed == \A id \in finished : id \notin workerBrowsers

\* C14: the handler of every request posts a reply before it finishes, with
\* error = TRUE only when initBrowser returned null, and a worker takes further
\* requests after such a failure.
C14_RepliesToEvery ==
    /\ finished \subseteq answered
    /\ \A m \in outbox :
          m.result.error <=> sites[requests[m.requestId].pos] = "broken"

\* C15: the process does not end on an exception of a dispatch, and whatever
\* way a dispatch of the running invocation ended, by reply, timeout or
\* exception, the callback returned the record of the handle, with the address
\* of the reply if it is error = FALSE with a non-empty e-mail and with 'N/A'
\* otherwise.
C15_DispatchNeverFaults ==
    /\ pc # "crashed"
    /\ \A id \in DOMAIN requests :
          (requests[id].inv = invocations /\ resolutions[id] # <<>>) =>
              LET r == resolutions[id][1]
                  email == IF r.by = "reply" /\ ~r.result.error
                              /\ r.result.email \notin {NullEmail, ""}
                           THEN r.result.email ELSE NA
              IN [pos |-> requests[id].pos, email |-> email] \in AllRecords

\* C16: when the invocation has settled, every worker thread constructed is
\* terminated, those of the pool among them, and the main browser is not
\* running; the workers are terminated as soon as the finally block is entered.
C16_TornDown ==
    /\ pc \in {"finally", "done"} =>
          /\ Range(workers) \subseteq terminated
          /\ \A w \in 1..spawned : w \in terminated
    /\ pc = "done" => ~browserOpen
    /\ browserOpen => browser

\* an invocation that launched its browser and pool, failed fatally and settled
C16_Witness ==
    /\ pc = "done"
    /\ exitReason = "fatal"
    /\ browser
    /\ Len(workers) = NUM_WORKERS
    /\ terminated = Range(workers)

\* C17: the invocation never settles by rejecting; after a fatal fault it
\* returns the records accumulated, which are those of the sink, and there are
\* none, a fatal fault coming before the first iteration.
C17_FatalResolves ==
    /\ exitReason \in {"none", "loop", "closed", "stagnation", "fatal"}
    /\ pc \in {"finally", "done"} <=> exitReason # "none"
    /\ exitReason = "fatal" =>
          /\ returned = scrapedData
          /\ returned = sink
          /\ returned = <<>>
          /\ scrollAttempts = 0

\* the feed never appeared: a fatal fault after the browser was launched and
\* the listener registered, and the invocation settled with an empty array
C17_Witness ==
    /\ pc = "done"
    /\ exitReason = "fatal"
    /\ abortListener
    /\ returned = <<>>
    /\ ~browserOpen

\* C18: a fault caught in a scroll iteration leaves the records, the sink, the
\* seen-handle count and the stagnation counter as they are; a closed-session
\* fault ends the loop, which returns the records without counting the
\* iteration; any other fault counts the iteration and the while condition
\* decides whether another iteration begins.
C18_IterationFaultCaught ==
    [][(pc = "scroll" /\ faults' # faults) =>
          /\ scrapedData' = scrapedData
          /\ sink' = sink
          /\ lastResultsCount' = lastResultsCount
          /\ consecutiveNoNewResults' = consecutiveNoNewResults
          /\ \/ /\ scrollAttempts' = scrollAttempts
                /\ pc' = "finally"
                /\ exitReason' = "closed"
                /\ returned' = scrapedData
             \/ /\ scrollAttempts' = scrollAttempts + 1
                /\ IF LoopCondition(isStopped, scrapedData, scrollAttempts + 1)
                   THEN pc' = "scroll" /\ exitReason' = "none"
                   ELSE /\ pc' = "finally"
                        /\ exitReason' = "loop"
                        /\ returned' = scrapedData]_vars

\* the second iteration begins with one record, one handle seen and no
\* stagnation, the environment's fault spent: an iteration faulted, was
\* counted and the loop went on
C18_Witness ==
    /\ pc = "scroll"
    /\ scrollAttempts = 2
    /\ lastResultsCount = 1
    /\ consecutiveNoNewResults = 0
    /\ Len(scrapedData) = 1
    /\ faults = 0

\* C19: outside a chunk in flight no detail page is open, and there are never
\* more than MAX_CONCURRENT of them.
C19_DetailPagesClosed ==
    /\ pc # "chunk" => detailPages = {}
    /\ Cardinality(detailPages) <= MAX_CONCURRENT

\* the properties of a BusinessRecord
Fields ==
    {"name", "website", "phone", "countryCode", "address", "city", "state",
     "pincode", "rating", "reviews", "category", "email"}

\* C20: a business that was built has every field of a BusinessRecord.
C20_EveryFieldPresent == DOMAIN business # {} => Fields \subseteq DOMAIN business

\* C21: the sink is called once for every record an extraction returned and
\* never for a null one, and in discovery order: a record of a handle found
\* earlier in the feed comes before the record of a handle found later,
\* whatever the order in which the callbacks of a chunk returned.
C21_DiscoveryOrder ==
    /\ \A i, j \in DOMAIN sink : i < j => sink[i].pos < sink[j].pos
    /\ \A i \in DOMAIN sink : sink[i] # Null /\ sink[i].pos \in extracted
    /\ pc \in {"scroll", "click", "finally", "done"} =>
          \A p \in extracted : \E i \in DOMAIN sink : sink[i].pos = p

\* three handles of one call were emitted in the order of the feed, one of a
\* later handle's callback having returned before an earlier one's, and an
\* extraction between emitted ones returned null
C21_Witness ==
    /\ overtaken
    /\ pc \in {"scroll", "click"}
    /\ Len(sink) >= 2
    /\ \E i \in DOMAIN sink :
          /\ i + 1 \in DOMAIN sink
          /\ sink[i + 1].pos = sink[i].pos + 2
          /\ dispatched[sink[i].pos + 1] = 1
          /\ sink[i].pos + 1 \notin extracted

\* position i of t begins a '+' followed by exactly n digits
PlusDigitsAt(t, i, n) ==
    /\ i + n <= Len(t)
    /\ t[i] = "+"
    /\ \A k \in (i + 1)..(i + n) : IsDigit(t[k])
    /\ i + n < Len(t) => ~IsDigit(t[i + n + 1])

\* t has a '+' followed by a digit
HasPlusDigits(t) == \E i \in 1..(Len(t) - 1) : t[i] = "+" /\ IsDigit(t[i + 1])

\* C22: of a phone text with a '+' followed by digits, countryCode is the first
\* such '+' with its digits and phone is the text without it, trimmed; of
\* another text countryCode is '+91' and phone is the text, without its leading
\* zero and trimmed if it begins with '0', unchanged otherwise.
C22_PhoneSplit ==
    (DOMAIN business # {} /\ phoneText.present) =>
        LET t == phoneText.text
        IN IF HasPlusDigits(t)
           THEN \E i \in 1..Len(t), n \in 1..Len(t) :
                    /\ PlusDigitsAt(t, i, n)
                    /\ ~HasPlusDigits(SubSeq(t, 1, i))
                    /\ business.countryCode = SubSeq(t, i, i + n)
                    /\ business.phone =
                          Trim(SubSeq(t, 1, i - 1) \o SubSeq(t, i + n + 1, Len(t)))
           ELSE /\ business.countryCode = <<"+", "9", "1">>
                /\ business.phone = IF t # <<>> /\ t[1] = "0"
                                    THEN Trim(SubSeq(t, 2, Len(t)))
                                    ELSE t

\* of the text '0+9' the country code is '+9' and the phone '0': the '+' case
\* comes before the leading zero
C22_Witness ==
    /\ phoneText = [present |-> TRUE, text |-> <<"0", "+", "9">>]
    /\ DOMAIN business # {}
    /\ business.countryCode = <<"+", "9">>
    /\ business.phone = <<"0">>

\* C23: a business for which no country code was detected, the one of a
\* listing without phone element included, has countryCode '+91'.
C23_DefaultCountryCode ==
    (DOMAIN business # {} /\ (~phoneText.present \/ ~HasPlusDigits(phoneText.text)))
        => business.countryCode = <<"+", "9", "1">>

\* the last segment of t has six digits in a row from position i on
SixDigitsAt(t, i) == i + 5 <= Len(t) /\ \A k \in i..(i + 5) : IsDigit(t[k])

\* C24: of an address of two segments or more, city is the second-to-last
\* segment trimmed; if the last segment has six digits in a row, pincode is the
\* first such six and state the last segment without them, trimmed; if not,
\* state is the last segment trimmed and pincode 'N/A'.
C24_AddressSplit ==
    (DOMAIN business # {} /\ Len(Split(addressText)) >= 2) =>
        LET parts == Split(addressText)
            last == parts[Len(parts)]
        IN /\ business.city = Trim(parts[Len(parts) - 1])
           /\ IF \E i \in 1..Len(last) : SixDigitsAt(last, i)
              THEN \E i \in 1..Len(last) :
                      /\ SixDigitsAt(last, i)
                      /\ \A j \in 1..(i - 1) : ~SixDigitsAt(last, j)
                      /\ business.pincode = SubSeq(last, i, i + 5)
                      /\ business.state =
                            Trim(SubSeq(last, 1, i - 1) \o SubSeq(last, i + 6, Len(last)))
              ELSE /\ business.pincode = <<"N", "/", "A">>
                   /\ business.state = Trim(last)

\* of 'c, a , b 560001' the city is 'a', the pincode '560001' and the state 'b'
C24_Witness ==
    /\ addressText = <<"c", ",", " ", "a", " ", ",",
                       " ", "b", " ", "5", "6", "0", "0", "0", "1">>
    /\ DOMAIN business # {}
    /\ business.city = <<"a">>
    /\ business.pincode = <<"5", "6", "0", "0", "0", "1">>
    /\ business.state = <<"b">>

\* C25: whichever exit the invocation took, the array it resolved with has the
\* records the sink was called with, as many and in the same order.
C25_ReturnedIsSink ==
    pc = "done" =>
        /\ Len(returned) = Len(sink)
        /\ \A k \in DOMAIN returned : returned[k] = sink[k]

\* an invocation that left through the catch of a scroll iteration on a closed
\* session, a record emitted before and after the abort signal
C25_Witness ==
    /\ pc = "done"
    /\ exitReason = "closed"
    /\ aborted
    /\ Len(sink) = 1
    /\ returned = sink

\* C26: a request is posted only to a worker that is alive: constructed, and
\* terminate() not called on it by then; in a later invocation as in the first.
C26_PostedToLiveWorker ==
    \A id \in DOMAIN requests :
        requests[id].worker # Undefined =>
            /\ requests[id].worker \in 1..spawned
            /\ requests[id].alive

\* C27: while the pool has workers the cursor is an index of the array, and
\* getNextWorker gave every dispatch a worker of the pool, when cleanupWorkers
\* ran on SIGTERM too.
C27_CursorInRange ==
    /\ Len(workers) > 0 => currentWorkerIndex \in 0..(Len(workers) - 1)
    /\ \A id \in DOMAIN requests : requests[id].worker \in 1..spawned

\* the messageHandlers registered on worker w
ListenersOn(w) == {h \in handlers : h[1] = w}

\* the dispatches to worker w that have not settled
UnresolvedOn(w) ==
    {id \in DOMAIN requests : requests[id].worker = w /\ resolutions[id] = <<>>}

\* C28: a worker has as many messageHandlers registered as there are dispatches
\* to it that have not settled, each its own; a dispatch that settled has
\* neither its handler registered nor its timer pending.
C28_ListenersMatchUnresolved ==
    /\ \A w \in 1..spawned :
          ListenersOn(w) = {<<w, id>> : id \in UnresolvedOn(w)}
    /\ \A id \in DOMAIN requests :
          resolutions[id] # <<>> =>
              /\ id \notin timers
              /\ \A h \in handlers : h[2] # id

\* C29: currentScraping holds a controller exactly while a /scrape request is
\* in progress and was not stopped, the controller of such a request; a
\* /stop-scrape request that found scrapes in progress left the signal of each
\* of them aborted, and one that found none, after a scrape that completed
\* too, called abort() on nothing and answered 'No active scraping to stop'.
C29_StopMatchesProgress ==
    /\ currentScraping # None => currentScraping \in running
    /\ currentScraping = None => running \subseteq abortedControllers
    /\ \A k \in DOMAIN stops :
          IF stops[k].running = {}
          THEN stops[k].called = {} /\ stops[k].message = "No active scraping to stop"
          ELSE stops[k].running \subseteq stops[k].aborted

====
